---- MODULE Spec2Model ----
(***************************************************************************)
(* The download / extract / clean-up pipeline of scripts/get_models.py and *)
(* scripts/setup_dataset.py: download_file, extract_tar_gz, extract_zip    *)
(* and the two drivers get_models and setup_data, run over a filesystem    *)
(* that persists from one run of a script to the next.                     *)
(***************************************************************************)
EXTENDS Naturals, Sequences, FiniteSets

\* ---------------------------------------------------------------- bounds
NumModels == 2      \* how many entries of FILES_TO_DOWNLOAD are modelled (at most 6)
NumEntries == 2     \* members of a well-formed archive
MaxChunks == 2      \* 1024-byte blocks streamed before the body must end or fail
MaxRuns == 2        \* consecutive runs of the script over the same filesystem

\* ------------------------------------------------- configuration constants
AllModelNames ==
    << "ts_dice.tar.gz", "ts_loss.tar.gz", "vit_dice.tar.gz",
       "vit_loss.tar.gz", "nnUnet_dice.tar.gz", "nnUnet_loss.tar.gz" >>

FILES_TO_DOWNLOAD ==
    SubSeq(AllModelNames, 1, IF NumModels < Len(AllModelNames) THEN NumModels ELSE Len(AllModelNames))

DOWNLOAD_DIR == "final_models"
ZIP_URL == "Dataset800_Brain.zip"
PTH_URL == "param_dict.pth"
BASE_DATA_DIR_REL == "data_and_outputs"
ZIP_EXTRACT_SUBDIR == "raw_data"
PTH_SAVE_SUBDIR == "preprocessed_data"

Models == { FILES_TO_DOWNLOAD[i] : i \in 1..Len(FILES_TO_DOWNLOAD) }
Resources == Models \cup {ZIP_URL, PTH_URL}
Archives == Models \cup {ZIP_URL}
Scripts == {"get_models", "setup_data", "extract_tar_gz", "extract_zip"}
Drivers == {"get_models", "setup_data"}

\* What a file at a download path can hold.  "truncated": an opened file whose
\* body was not streamed to its end; "good": a well-formed archive of
\* NumEntries members; "badOpen": bytes the archive library rejects when it
\* opens them; "badMid": an archive that opens and then fails part-way through
\* its members; "blob": a complete non-archive payload (param_dict.pth).
ArchiveBodies == {"good", "badOpen", "badMid"}

AllEntries == 1..NumEntries

VARIABLES
    script,       \* which entry point this process runs
    run,          \* 1-based number of the current run
    pc,           \* position of the running script
    stage,        \* the resource download_file / the extractor is working on
    idx,          \* get_models: index of `model` in FILES_TO_DOWNLOAD
    tar_success,  \* get_models local; "unbound" until first assigned
    zip_success,  \* setup_data local
    pth_success,  \* setup_data local
    response,     \* body the server is sending for the request in flight
    chunks,       \* bar.n in 1024-byte blocks
    dlResult,     \* return value of the last download_file call
    dlError,      \* which handler / cause ended the last download_file call
    exResult,     \* return value of the last extractor call
    exReason,     \* the exception that ended the last extractor call
    files,        \* download path -> content
    dirs,         \* directories that exist
    extracted,    \* archive -> members present in its extraction directory
    requested,    \* URLs requested in this run, in order
    outcome,      \* per resource, what the driver made of it in this run
    summary,      \* the closing log line of this run
    prevRun       \* how the previous run ended

locals == << stage, idx, tar_success, zip_success, pth_success >>
dlvars == << response, chunks, dlResult, dlError >>
exvars == << exResult, exReason >>
fsvars == << files, dirs, extracted >>
obsvars == << requested, outcome, summary, prevRun >>
vars == << script, run, pc, locals, dlvars, exvars, fsvars, obsvars >>

\* the directory an archive is extracted into
ExtractDir(r) == IF r = ZIP_URL THEN ZIP_EXTRACT_SUBDIR ELSE DOWNLOAD_DIR

\* the directory that holds a download path
ParentDirs(r) ==
    IF r \in Models THEN {DOWNLOAD_DIR}
    ELSE IF r = ZIP_URL THEN {BASE_DATA_DIR_REL}
    ELSE {BASE_DATA_DIR_REL, PTH_SAVE_SUBDIR}

\* what the server can send for a URL
Bodies(r) == IF r = PTH_URL THEN {"blob"} ELSE ArchiveBodies

NoOutcome == [r \in Resources |-> "none"]

\* ------------------------------------------------------------------ Init
\* A fresh checkout: nothing downloaded, no data directory.  The two extractor
\* entry points are called directly on a path in any state a file can be in.
InitFiles(s) ==
    IF s = "extract_tar_gz"
    THEN { [r \in Resources |-> IF r = FILES_TO_DOWNLOAD[1] THEN c ELSE "absent"] :
             c \in {"absent", "truncated"} \cup ArchiveBodies }
    ELSE IF s = "extract_zip"
    THEN { [r \in Resources |-> IF r = ZIP_URL THEN c ELSE "absent"] :
             c \in {"absent", "truncated"} \cup ArchiveBodies }
    ELSE { [r \in Resources |-> "absent"] }

InitDirs(s, f) ==
    IF s = "extract_tar_gz"
    THEN IF f[FILES_TO_DOWNLOAD[1]] = "absent" THEN { {}, {DOWNLOAD_DIR} } ELSE { {DOWNLOAD_DIR} }
    ELSE IF s = "extract_zip"
    THEN IF f[ZIP_URL] = "absent"
         THEN { {}, {BASE_DATA_DIR_REL}, {BASE_DATA_DIR_REL, ZIP_EXTRACT_SUBDIR} }
         ELSE { {BASE_DATA_DIR_REL}, {BASE_DATA_DIR_REL, ZIP_EXTRACT_SUBDIR} }
    ELSE { {} }

Init ==
    /\ script \in Scripts
    /\ run = 1
    /\ pc = IF script \in Drivers THEN "start" ELSE "extract"
    /\ stage = IF script = "extract_tar_gz" THEN FILES_TO_DOWNLOAD[1]
               ELSE IF script = "extract_zip" THEN ZIP_URL ELSE "none"
    /\ idx = 0
    /\ tar_success = "unbound"
    /\ zip_success = "unbound"
    /\ pth_success = "unbound"
    /\ response = "none"
    /\ chunks = 0
    /\ dlResult = "none"
    /\ dlError = "none"
    /\ exResult = "none"
    /\ exReason = "none"
    /\ files \in InitFiles(script)
    /\ dirs \in InitDirs(script, files)
    /\ extracted = [r \in Archives |-> {}]
    /\ requested = << >>
    /\ outcome = NoOutcome
    /\ summary = "none"
    /\ prevRun = "none"

\* --------------------------------------------------------- download_file
\* requests.get(url, stream=True, timeout=60); response.raise_for_status().
\* A connection error, a timeout or a non-2xx status raises a
\* RequestException, whose handler removes the file at save_path when one is
\* there and returns False.
DlRequest ==
    /\ pc = "dl_request"
    /\ requested' = Append(requested, stage)
    /\ \/ \E cause \in {"status", "request"} :
            /\ files' = [files EXCEPT ![stage] = "absent"]
            /\ dlResult' = "False"
            /\ dlError' = cause
            /\ response' = "none"
            /\ pc' = "dl_done"
       \/ \E body \in Bodies(stage) :
            /\ response' = body
            /\ pc' = "dl_open"
            /\ UNCHANGED << files, dlResult, dlError >>
    /\ UNCHANGED << script, run, locals, chunks, exvars, dirs, extracted,
                    outcome, summary, prevRun >>

\* setup_dataset.py only: os.makedirs(os.path.dirname(save_path), exist_ok=True);
\* then, in both scripts, open(save_path, 'wb'), which creates the file or
\* truncates the one that is there.  Either can raise an OSError, which the
\* IOError handler turns into False without touching the file.
DlOpen ==
    /\ pc = "dl_open"
    /\ \/ /\ script = "setup_data"
          /\ ~(ParentDirs(stage) \subseteq dirs)
          /\ dlError' = "mkdir"
          /\ dlResult' = "False"
          /\ response' = "none"
          /\ pc' = "dl_done"
          /\ UNCHANGED << files, dirs, chunks >>
       \/ /\ dirs' = IF script = "setup_data" THEN dirs \cup ParentDirs(stage) ELSE dirs
          /\ \/ /\ dlError' = "open"
                /\ dlResult' = "False"
                /\ response' = "none"
                /\ pc' = "dl_done"
                /\ UNCHANGED << files, chunks >>
             \/ /\ files' = [files EXCEPT ![stage] = "truncated"]
                /\ chunks' = 0
                /\ pc' = "dl_stream"
                /\ UNCHANGED << dlResult, dlError, response >>
    /\ UNCHANGED << script, run, locals, exvars, extracted, obsvars >>

\* One turn of `for data in response.iter_content(block_size)`, or its end.
\*   - a block arrives and file.write(data) stores it;
\*   - a block arrives and file.write raises an OSError: the IOError handler
\*     returns False and leaves the file as it is;
\*   - the connection breaks: the RequestException handler removes the file;
\*   - the body ends: the file is complete and the call returns True.  A body
\*     of no bytes is no archive.
DlStream ==
    /\ pc = "dl_stream"
    /\ \/ /\ chunks < MaxChunks
          /\ chunks' = chunks + 1
          /\ UNCHANGED << files, dlResult, dlError, response, pc >>
       \/ /\ dlError' = "write"
          /\ dlResult' = "False"
          /\ response' = "none"
          /\ pc' = "dl_done"
          /\ UNCHANGED << files, chunks >>
       \/ /\ files' = [files EXCEPT ![stage] = "absent"]
          /\ dlError' = "stream"
          /\ dlResult' = "False"
          /\ response' = "none"
          /\ pc' = "dl_done"
          /\ UNCHANGED chunks
       \/ /\ files' = [files EXCEPT ![stage] =
                          IF chunks = 0 /\ stage # PTH_URL THEN "badOpen" ELSE response]
          /\ dlError' = "none"
          /\ dlResult' = "True"
          /\ response' = "none"
          /\ pc' = "dl_done"
          /\ UNCHANGED chunks
    /\ UNCHANGED << script, run, locals, exvars, dirs, extracted, obsvars >>

\* ------------------------------------------------------------ extractors
\* The ways tarfile can end on a file that holds content c, as
\* [ok, reason, n]: the return value, the kind of exception behind it and how many
\* members extractall wrote before it ended.  A truncated .tar.gz fails either
\* when it is opened or part-way through its members; a well-formed one can
\* still fail on the local side (PermissionError, disk full).
TarOutcomes(c) ==
    IF c \in {"badOpen", "blob"}
    THEN { [ok |-> "False", reason |-> "corrupt", n |-> 0] }
    ELSE IF c \in {"badMid", "truncated"}
    THEN { [ok |-> "False", reason |-> rs, n |-> k] :
             rs \in {"corrupt", "unexpected"}, k \in 0..(NumEntries - 1) }
    ELSE { [ok |-> "True", reason |-> "none", n |-> NumEntries] }
         \cup { [ok |-> "False", reason |-> rs, n |-> k] :
                  rs \in {"permission", "unexpected"}, k \in 0..(NumEntries - 1) }

\* Likewise for zipfile on an existing file.  A truncated zip has lost its
\* central directory, so ZipFile() rejects it with BadZipFile.
ZipOutcomes(c) ==
    IF c \in {"badOpen", "blob", "truncated"}
    THEN { [ok |-> "False", reason |-> "corrupt", n |-> 0] }
    ELSE IF c = "badMid"
    THEN { [ok |-> "False", reason |-> rs, n |-> k] :
             rs \in {"corrupt", "other"}, k \in 0..(NumEntries - 1) }
    ELSE { [ok |-> "True", reason |-> "none", n |-> NumEntries] }
         \cup { [ok |-> "False", reason |-> "other", n |-> k] : k \in 0..(NumEntries - 1) }

\* extract_tar_gz(tar_file_path): is_file() is tested first and a missing file
\* raises FileNotFoundError before anything is touched; then the parent
\* directory is made (it holds the file, so it exists) and the archive is
\* opened and extracted into it.
extract_tar_gz ==
    /\ pc = "extract"
    /\ script \in {"get_models", "extract_tar_gz"}
    /\ IF files[stage] = "absent"
       THEN /\ exResult' = "False"
            /\ exReason' = "not_found"
            /\ UNCHANGED << dirs, extracted >>
       ELSE \E o \in TarOutcomes(files[stage]) :
            /\ dirs' = dirs \cup {ExtractDir(stage)}
            /\ extracted' = [extracted EXCEPT ![stage] = @ \cup 1..o.n]
            /\ exResult' = o.ok
            /\ exReason' = o.reason
    /\ pc' = "ex_done"
    /\ UNCHANGED << script, run, locals, dlvars, files, obsvars >>

\* extract_zip(zip_path, extract_to): os.makedirs(extract_to, exist_ok=True)
\* comes first (the environment may refuse it), then ZipFile(zip_path) and
\* extractall.  A missing zip_path raises FileNotFoundError inside ZipFile(),
\* after the directory was made; the generic `except Exception` handler logs it.
extract_zip ==
    /\ pc = "extract"
    /\ script \in {"setup_data", "extract_zip"}
    /\ \/ /\ ExtractDir(stage) \notin dirs
          /\ exResult' = "False"
          /\ exReason' = "mkdir"
          /\ UNCHANGED << dirs, extracted >>
       \/ /\ dirs' = dirs \cup {BASE_DATA_DIR_REL, ExtractDir(stage)}
          /\ IF files[stage] = "absent"
             THEN /\ exResult' = "False"
                  /\ exReason' = "not_found"
                  /\ UNCHANGED extracted
             ELSE \E o \in ZipOutcomes(files[stage]) :
                  /\ extracted' = [extracted EXCEPT ![stage] = @ \cup 1..o.n]
                  /\ exResult' = o.ok
                  /\ exReason' = o.reason
    /\ pc' = "ex_done"
    /\ UNCHANGED << script, run, locals, dlvars, files, obsvars >>

\* a direct call of an extractor returns to its caller
ExtractReturn ==
    /\ pc = "ex_done"
    /\ script \notin Drivers
    /\ pc' = "done"
    /\ UNCHANGED << script, run, locals, dlvars, exvars, fsvars, obsvars >>

\* ---------------------------------------------------- shared driver steps
Failed == {"dl_failed", "ex_failed"}
Succeeded == {"ok", "ok_not_removed"}

\* faulty variants of RemoveIfExtracted: the archive is never removed / always removed
RemoveNever(f, r, ok) == f
RemoveAlways(f, r, ok) == [f EXCEPT ![r] = "absent"]

\* `if extract(...): os.remove(path)`: the archive is removed only after an
\* extraction that returned True.
RemoveIfExtracted(f, r, ok) ==
    IF ok = "True" THEN [f EXCEPT ![r] = "absent"] ELSE f

\* faulty variant of NextIndex: the loop breaks at the first failure
NextIndexBreakOnFailure(i, ok) ==
    IF ok = "True" THEN i + 1 ELSE Len(FILES_TO_DOWNLOAD) + 1

\* `for model in FILES_TO_DOWNLOAD`: the loop goes on to the next entry whatever
\* happened to this one.
NextIndex(i, ok) == i + 1

\* faulty variant of GateOpen: the early return is missing
GateAlwaysOpen(zs) == TRUE

\* `if not zip_success: return`
GateOpen(zs) == zs = "True"

\* variant of AlreadyExtracted: only a complete extraction counts as done
FullyExtracted(d, e) == ZIP_EXTRACT_SUBDIR \in d /\ e[ZIP_URL] = AllEntries

\* os.path.exists(zip_extract) and os.listdir(zip_extract)
AlreadyExtracted(d, e) == ZIP_EXTRACT_SUBDIR \in d /\ e[ZIP_URL] # {}

\* The caller's branch on download_file's return value.
\*   get_models: True goes on to extract_tar_gz; on False nothing is assigned
\*               and the loop moves to the next entry.
\*   setup_data: for the zip, True goes on to extract_zip and False sets
\*               zip_success = False; for the pth file the result is pth_success.
DlDone ==
    /\ pc = "dl_done"
    /\ IF dlResult = "True" /\ stage # PTH_URL
       THEN /\ pc' = "extract"
            /\ UNCHANGED << idx, tar_success, zip_success, pth_success, outcome >>
       ELSE /\ outcome' = [outcome EXCEPT ![stage] =
                              IF dlResult = "True" THEN "ok" ELSE "dl_failed"]
            /\ IF script = "get_models"
               THEN /\ idx' = NextIndex(idx, dlResult)
                    /\ pc' = "loop"
                    /\ UNCHANGED << tar_success, zip_success, pth_success >>
               ELSE IF stage = ZIP_URL
               THEN /\ zip_success' = "False"
                    /\ pc' = "gate"
                    /\ UNCHANGED << idx, tar_success, pth_success >>
               ELSE /\ pth_success' = dlResult
                    /\ pc' = "summary"
                    /\ UNCHANGED << idx, tar_success, zip_success >>
    /\ UNCHANGED << script, run, stage, dlvars, exvars, fsvars,
                    requested, summary, prevRun >>

\* The caller's branch on the extractor's return value: after True the archive
\* is removed (an OSError from os.remove is logged as a warning and the stage
\* still counts as a success); after False the flag is set to False and the
\* archive is left alone.
ExDone ==
    /\ pc = "ex_done"
    /\ script \in Drivers
    /\ \/ /\ files' = RemoveIfExtracted(files, stage, exResult)
          /\ outcome' = [outcome EXCEPT ![stage] =
                            IF exResult = "True" THEN "ok" ELSE "ex_failed"]
       \/ /\ exResult = "True"
          /\ outcome' = [outcome EXCEPT ![stage] = "ok_not_removed"]
          /\ UNCHANGED files
    /\ IF script = "get_models"
       THEN /\ tar_success' = exResult
            /\ idx' = NextIndex(idx, exResult)
            /\ pc' = "loop"
            /\ UNCHANGED zip_success
       ELSE /\ zip_success' = exResult
            /\ pc' = "gate"
            /\ UNCHANGED << idx, tar_success >>
    /\ UNCHANGED << script, run, stage, pth_success, dlvars, exvars, dirs, extracted,
                    requested, summary, prevRun >>

\* ------------------------------------------------------------ get_models
\* if not os.path.exists(DOWNLOAD_DIR): os.mkdir(DOWNLOAD_DIR)
GetModelsStart ==
    /\ pc = "start"
    /\ script = "get_models"
    /\ dirs' = dirs \cup {DOWNLOAD_DIR}
    /\ idx' = 1
    /\ pc' = "loop"
    /\ UNCHANGED << script, run, stage, tar_success, zip_success, pth_success,
                    dlvars, exvars, files, extracted, obsvars >>

\* the loop head: download_file(model["URL"], model["NAME"]) for the next entry
GetModelsLoop ==
    /\ pc = "loop"
    /\ idx <= Len(FILES_TO_DOWNLOAD)
    /\ stage' = FILES_TO_DOWNLOAD[idx]
    /\ pc' = "dl_request"
    /\ UNCHANGED << script, run, idx, tar_success, zip_success, pth_success,
                    dlvars, exvars, fsvars, obsvars >>

\* after the loop: `if not tar_success:` reads a local that no iteration may
\* have assigned (UnboundLocalError); False logs "Setup incomplete ..." and
\* returns; True falls off the end without a closing line.
GetModelsEnd ==
    /\ pc = "loop"
    /\ idx > Len(FILES_TO_DOWNLOAD)
    /\ IF tar_success = "unbound"
       THEN pc' = "crashed" /\ UNCHANGED summary
       ELSE /\ pc' = "done"
            /\ summary' = IF tar_success = "False" THEN "incomplete" ELSE "none"
    /\ UNCHANGED << script, run, locals, dlvars, exvars, fsvars,
                    requested, outcome, prevRun >>

\* ------------------------------------------------------------ setup_data
\* the skip check for the zip stage, else download_file(ZIP_URL, zip_download)
SetupStart ==
    /\ pc = "start"
    /\ script = "setup_data"
    /\ IF AlreadyExtracted(dirs, extracted)
       THEN /\ zip_success' = "True"
            /\ outcome' = [outcome EXCEPT ![ZIP_URL] = "skipped"]
            /\ pc' = "gate"
            /\ UNCHANGED stage
       ELSE /\ stage' = ZIP_URL
            /\ pc' = "dl_request"
            /\ UNCHANGED << zip_success, outcome >>
    /\ UNCHANGED << script, run, idx, tar_success, pth_success, dlvars, exvars,
                    fsvars, requested, summary, prevRun >>

\* `if not zip_success: ... return`; otherwise os.makedirs(pth_save_dir), the
\* skip check for the pth file, else download_file(PTH_URL, pth_save_path)
SetupGate ==
    /\ pc = "gate"
    /\ IF ~GateOpen(zip_success)
       THEN /\ summary' = "incomplete"
            /\ pc' = "done"
            /\ UNCHANGED << stage, pth_success, dirs, outcome >>
       ELSE /\ dirs' = dirs \cup {BASE_DATA_DIR_REL, PTH_SAVE_SUBDIR}
            /\ IF files[PTH_URL] # "absent"
               THEN /\ pth_success' = "True"
                    /\ outcome' = [outcome EXCEPT ![PTH_URL] = "skipped"]
                    /\ pc' = "summary"
                    /\ UNCHANGED stage
               ELSE /\ stage' = PTH_URL
                    /\ pc' = "dl_request"
                    /\ UNCHANGED << pth_success, outcome >>
            /\ UNCHANGED summary
    /\ UNCHANGED << script, run, idx, tar_success, zip_success, dlvars, exvars,
                    files, extracted, requested, prevRun >>

\* the final summary
SetupSummary ==
    /\ pc = "summary"
    /\ summary' = IF zip_success = "True" /\ pth_success = "True"
                  THEN "success" ELSE "failed"
    /\ pc' = "done"
    /\ UNCHANGED << script, run, locals, dlvars, exvars, fsvars,
                    requested, outcome, prevRun >>

\* ---------------------------------------------------------------- re-run
ScriptResources == IF script = "get_models" THEN Models
                   ELSE IF script = "setup_data" THEN {ZIP_URL, PTH_URL} ELSE {}

\* The script is started again on the filesystem the last run left.  Nothing
\* but the filesystem carries over; prevRun records how the run just ended.
NewRun ==
    /\ pc \in {"done", "crashed"}
    /\ run < MaxRuns
    /\ run' = run + 1
    /\ prevRun' = IF script \in Drivers /\ pc = "done"
                     /\ \A r \in ScriptResources : outcome[r] \in Succeeded \cup {"skipped"}
                  THEN "all_ok"
                  ELSE IF script = "setup_data" /\ outcome[ZIP_URL] = "ex_failed"
                          /\ extracted[ZIP_URL] # {}
                  THEN "zip_partial"
                  ELSE "other"
    /\ pc' = IF script \in Drivers THEN "start" ELSE "extract"
    /\ stage' = IF script \in Drivers THEN "none" ELSE stage
    /\ idx' = 0
    /\ tar_success' = "unbound"
    /\ zip_success' = "unbound"
    /\ pth_success' = "unbound"
    /\ response' = "none"
    /\ chunks' = 0
    /\ dlResult' = "none"
    /\ dlError' = "none"
    /\ exResult' = "none"
    /\ exReason' = "none"
    /\ requested' = << >>
    /\ outcome' = NoOutcome
    /\ summary' = "none"
    /\ UNCHANGED << script, fsvars >>

Next ==
    \/ DlRequest \/ DlOpen \/ DlStream \/ DlDone
    \/ extract_tar_gz \/ extract_zip \/ ExtractReturn \/ ExDone
    \/ GetModelsStart \/ GetModelsLoop \/ GetModelsEnd
    \/ SetupStart \/ SetupGate \/ SetupSummary
    \/ NewRun

Spec == Init /\ [][Next]_vars

\* ================================================================ claims
\* C1: whenever download_file returns False after a bad status, a network error
\* during the request or the streaming, or a write error on the opened file,
\* no file exists at the destination path.
C1_NoFileAfterFailedDownload ==
    (pc = "dl_done" /\ dlResult = "False"
        /\ dlError \in {"status", "request", "stream", "write"})
    => files[stage] = "absent"

\* C2: a run that follows a run in which every resource was processed
\* successfully performs no network request.
C2_SecondRunNoRequests ==
    (script \in Drivers /\ prevRun = "all_ok") => requested = << >>

\* C3: whatever the downloads and extractions return, the driver returns
\* normally; it never ends in an unhandled exception.
C3_DriverNeverCrashes == pc # "crashed"

\* C4 as stated: once the driver has counted an archive as successfully
\* processed, the archive file is gone from the download path and its members
\* are in the extraction directory.
C4_ArchiveGoneAfterSuccess ==
    \A r \in Archives :
        outcome[r] \in Succeeded => files[r] = "absent" /\ extracted[r] = AllEntries

\* C4 as amended: once the driver has counted an archive as successfully
\* processed, its members are in the extraction directory, and the archive
\* file is gone from the download path unless os.remove raised an OSError, in
\* which case the complete archive is still there.
C4_ArchiveGoneUnlessRemoveFailed ==
    \A r \in Archives :
        /\ outcome[r] = "ok" => files[r] = "absent" /\ extracted[r] = AllEntries
        /\ outcome[r] = "ok_not_removed" => files[r] = "good" /\ extracted[r] = AllEntries

C4_Witness ==
    /\ pc = "done"
    /\ \E r \in Archives : outcome[r] = "ok" /\ files[r] = "absent"
    /\ \E r \in Archives : outcome[r] = "ok_not_removed" /\ files[r] = "good"

\* C5: an archive whose download succeeded and whose extraction returned False
\* is still at its download path when the extractor returns, while the driver
\* goes on to later resources and when the driver returns.
C5_ArchiveKeptAfterFailedExtraction ==
    /\ (script \in Drivers /\ pc = "ex_done" /\ exResult = "False")
          => files[stage] \in ArchiveBodies
    /\ \A r \in Archives : outcome[r] = "ex_failed" => files[r] \in ArchiveBodies

C5_Witness ==
    /\ script = "get_models"
    /\ pc = "done"
    /\ outcome[FILES_TO_DOWNLOAD[1]] = "ex_failed"
    /\ outcome[FILES_TO_DOWNLOAD[Len(FILES_TO_DOWNLOAD)]] = "ok"

\* C6: in setup_data, once the zip stage has failed no step of the run requests
\* PTH_URL, creates the PTH save directory, assigns pth_success or logs the
\* success summary; the run ends with the "Setup incomplete" line.
C6_ZipStageGatesPth ==
    [][ (script = "setup_data" /\ outcome'[ZIP_URL] \in Failed)
        => /\ \A i \in 1..Len(requested') : requested'[i] # PTH_URL
           /\ PTH_SAVE_SUBDIR \in dirs' => PTH_SAVE_SUBDIR \in dirs
           /\ pth_success' = "unbound"
           /\ summary' \in {"none", "incomplete"}
           /\ pc' = "done" => summary' = "incomplete" ]_vars

C6_Witness ==
    /\ script = "setup_data"
    /\ pc = "done"
    /\ outcome[ZIP_URL] = "ex_failed"
    /\ PTH_SAVE_SUBDIR \notin dirs

C8_FailedExtractLeavesTarget ==
    [][ (pc = "extract" /\ pc' = "ex_done" /\ files[stage] \in {"absent", "badOpen"}
            /\ exReason' # "mkdir")
        => /\ exResult' = "False"
           /\ dirs' = dirs
           /\ extracted' = extracted
           /\ exReason' = IF files[stage] = "absent" THEN "not_found" ELSE "corrupt" ]_vars

\* C9: when a driver returns, it has logged a failure/incomplete line if and
\* only if the download or the extraction of some resource failed in that run.
C9_SummaryIffSomeFailure ==
    (script \in Drivers /\ pc = "done")
    => (summary \in {"incomplete", "failed"} <=> \E r \in Resources : outcome[r] \in Failed)

\* C10: in setup_data, a run that follows a run whose zip extraction failed
\* after writing some members issues no request for ZIP_URL, extracts nothing,
\* takes the zip stage as successful and goes on to the PTH stage and the
\* final summary, while the extraction directory still lacks members.
C10_PartialExtractionTakenAsComplete ==
    (script = "setup_data" /\ prevRun = "zip_partial") =>
        /\ \A i \in 1..Len(requested) : requested[i] # ZIP_URL
        /\ exResult = "none"
        /\ extracted[ZIP_URL] # AllEntries
        /\ pc # "start" => zip_success = "True" /\ outcome[ZIP_URL] = "skipped"
        /\ pc = "done" => summary \in {"success", "failed"}

C10_Witness ==
    /\ script = "setup_data"
    /\ prevRun = "zip_partial"
    /\ summary = "success"
    /\ extracted[ZIP_URL] # AllEntries
====
